---------------------------- MODULE Spec2Model ----------------------------
(***************************************************************************)
(* thghosting-data-centers: parse_html (src/html.rs, duplicated in         *)
(* src/lib.rs).  The parsed document is modelled as the tree the scraper   *)
(* selectors walk: a sequence of div.location blocks; each block has an    *)
(* optional id attribute, its .dc-city elements, its "table tr" rows (each *)
(* a sequence of td cells) and its .popover-container elements.  A cell is *)
(* a sequence of child nodes (text nodes and <a> elements).  Text is a     *)
(* sequence of characters (labels, titles and hrefs, which the code only   *)
(* compares or copies, are single atoms).  Option<T> is a sequence of      *)
(* length 0 or 1.                                                          *)
(***************************************************************************)
EXTENDS Integers, Sequences, FiniteSets, TLC

VARIABLES document, pc, li, ti, id, city, available_services,
          standard_bare_metal_bandwidth, ping, test_download,
          data_centers, result

vars == <<document, pc, li, ti, id, city, available_services,
          standard_bare_metal_bandwidth, ping, test_download,
          data_centers, result>>

(* ------------------------------ bounds -------------------------------- *)
MaxBlocks == 2
MaxRows == 2
MaxPopovers == 2

(* ------------------------- Option<T> encoding ------------------------- *)
None == <<>>
Some(x) == <<x>>

(* --------------------------- document nodes --------------------------- *)
TextNode(chars) == [kind |-> "text", chars |-> chars, title |-> None, href |-> None]
ANode(title, href) == [kind |-> "a", chars |-> <<>>, title |-> title, href |-> href]
Text(chars) == <<TextNode(chars)>>

RECURSIVE Concat(_)
Concat(ss) == IF ss = <<>> THEN <<>> ELSE Head(ss) \o Concat(Tail(ss))

(* html5ever text serialisation: & < > are written as entities.           *)
EscapeChar(c) ==
    CASE c = "&" -> <<"&", "a", "m", "p", ";">>
      [] c = "<" -> <<"&", "l", "t", ";">>
      [] c = ">" -> <<"&", "g", "t", ";">>
      [] OTHER -> <<c>>

SerializeNode(n) ==
    IF n.kind = "text"
    THEN Concat([i \in 1..Len(n.chars) |-> EscapeChar(n.chars[i])])
    ELSE <<"<a">>
         \o (IF n.title = None THEN <<>> ELSE <<" title=", n.title[1]>>)
         \o (IF n.href = None THEN <<>> ELSE <<" href=", n.href[1]>>)
         \o <<">", "</a>">>

(* ElementRef::inner_html: the serialisation of the element's children.   *)
InnerHtml(cell) == Concat([i \in 1..Len(cell) |-> SerializeNode(cell[i])])

IsA(n) == n.kind = "a"

(* element.select("a"): the <a> descendants in document order.            *)
SelectA(cell) == SelectSeq(cell, IsA)

(* ---------------------- Ipv4Addr::from_str ---------------------------- *)
Digits == <<"0", "1", "2", "3", "4", "5", "6", "7", "8", "9">>
IsDigit(c) == \E d \in 1..10 : Digits[d] = c
DigitVal(c) == (CHOOSE d \in 1..10 : Digits[d] = c) - 1

RECURSIVE SplitDots(_, _)
(* the '.'-separated groups of s, cur being the group under construction  *)
SplitDots(s, cur) ==
    IF s = <<>> THEN <<cur>>
    ELSE IF Head(s) = "." THEN <<cur>> \o SplitDots(Tail(s), <<>>)
    ELSE SplitDots(Tail(s), Append(cur, Head(s)))

RECURSIVE NumVal(_)
NumVal(g) == IF g = <<>> THEN 0 ELSE 10 * NumVal(SubSeq(g, 1, Len(g) - 1)) + DigitVal(g[Len(g)])

(* read_number(10, Some(3), false): 1..3 decimal digits, no leading zero  *)
(* unless the group is "0", value fits a u8.                              *)
GroupOk(g) ==
    /\ Len(g) >= 1
    /\ Len(g) <= 3
    /\ \A i \in 1..Len(g) : IsDigit(g[i])
    /\ (Len(g) > 1 => g[1] # "0")
    /\ NumVal(g) <= 255

(* s.parse::<Ipv4Addr>(): Some(<<a,b,c,d>>) or None on AddrParseError      *)
(* (four '.'-separated octets and nothing else; std rejects leading       *)
(* zeros since Rust 1.48).                                                *)
ParseIpv4(s) ==
    LET gs == SplitDots(s, <<>>) IN
    IF Len(gs) = 4 /\ \A i \in 1..4 : GroupOk(gs[i])
    THEN Some([i \in 1..4 |-> NumVal(gs[i])])
    ELSE None

(* ------------------------------ errors -------------------------------- *)
Err(kind) == [kind |-> kind, text |-> <<>>]
IdMissing == Err("IdMissing")
CityMissing == Err("CityMissing")
AttrElementInvalid == Err("AttrElementInvalid")
AvailableServiceUnknown == Err("AvailableServiceUnknown")
PingInvalid(s) == [kind |-> "PingInvalid", text |-> s]

ResultOk(v) == [ok |-> TRUE, value |-> v, err |-> None]
ResultErr(e) == [ok |-> FALSE, value |-> <<>>, err |-> Some(e)]
Pending == [ok |-> FALSE, value |-> <<>>, err |-> None]

(* --------------------------- row processing --------------------------- *)
Label(s) == <<s>>

(* mutant: the fourth td is not looked for                                *)
TdShapeAtLeastThree(tr) == Len(tr) >= 3

(* three td_element_iter.next() calls succeed and the fourth is None      *)
TdShapeOk(tr) == Len(tr) >= 1 /\ Len(tr) >= 2 /\ Len(tr) >= 3 /\ ~(Len(tr) >= 4)

(* the match on a link's title                                            *)
ServiceOfTitle(title) ==
    CASE title = "Bare Metal Servers" -> Some("BareMetalServers")
      [] title = "Virtual Servers" -> Some("VirtualServers")
      [] title = "Private Cloud" -> Some("PrivateCloud")
      [] OTHER -> None

RECURSIVE PushServicesSkipUnknown(_, _)
(* mutant: a title outside the vocabulary is skipped like a missing title *)
PushServicesSkipUnknown(links, services) ==
    IF links = <<>> THEN [err |-> None, services |-> services]
    ELSE LET ele == Head(links) IN
         IF ele.title = None \/ ServiceOfTitle(ele.title[1]) = None
         THEN PushServicesSkipUnknown(Tail(links), services)
         ELSE PushServicesSkipUnknown(Tail(links),
                                      Append(services, ServiceOfTitle(ele.title[1])[1]))

RECURSIVE PushServices(_, _)
(* the loop over value_element.select("a"): the services vector after the *)
(* loop, or the early return of AvailableServiceUnknown                   *)
PushServices(links, services) ==
    IF links = <<>> THEN [err |-> None, services |-> services]
    ELSE LET ele == Head(links) IN
         IF ele.title = None THEN PushServices(Tail(links), services)
         ELSE IF ServiceOfTitle(ele.title[1]) = None
              THEN [err |-> Some(AvailableServiceUnknown), services |-> services]
              ELSE PushServices(Tail(links),
                                Append(services, ServiceOfTitle(ele.title[1])[1]))

(* value_element.select("a").next().and_then(|ele| ele.attr("href"))      *)
FirstLinkHref(links) == IF links = <<>> THEN None ELSE Head(links).href

Acc(s, b, p, t) ==
    [available_services |-> s, standard_bare_metal_bandwidth |-> b,
     ping |-> p, test_download |-> t]

Step(e, acc) == [err |-> e, acc |-> acc]

(* "Available Services" arm                                               *)
ServicesArm(value, acc) ==
    LET r == PushServices(SelectA(value), acc.available_services) IN
    Step(r.err, [acc EXCEPT !.available_services = r.services])

(* mutant: a blank bandwidth row clears the value of an earlier row       *)
BandwidthArmBlankClears(value, acc) ==
    LET s == InnerHtml(value) IN
    IF s = <<>> THEN Step(None, [acc EXCEPT !.standard_bare_metal_bandwidth = None])
    ELSE Step(None, [acc EXCEPT !.standard_bare_metal_bandwidth = Some(s)])

(* "Standard Bare Metal Bandwidth" arm                                    *)
BandwidthArm(value, acc) ==
    LET s == InnerHtml(value) IN
    IF s = <<>> THEN Step(None, acc)
    ELSE Step(None, [acc EXCEPT !.standard_bare_metal_bandwidth = Some(s)])

(* mutant: the "-" placeholder is parsed like any other text              *)
PingArmNoPlaceholder(value, acc) ==
    LET s == InnerHtml(value) IN
    IF s = <<>> THEN Step(None, acc)
    ELSE IF ParseIpv4(s) = None
         THEN Step(Some(PingInvalid(s)), acc)
         ELSE Step(None, [acc EXCEPT !.ping = ParseIpv4(s)])

(* "Ping/Trace Route" arm                                                 *)
PingArm(value, acc) ==
    LET s == InnerHtml(value) IN
    IF s = <<"-">> \/ s = <<>> THEN Step(None, acc)
    ELSE IF ParseIpv4(s) = None
         THEN Step(Some(PingInvalid(s)), acc)
         ELSE Step(None, [acc EXCEPT !.ping = ParseIpv4(s)])

HasHref(n) == n.kind = "a" /\ n.href # None

(* mutant: the first link that has an href, not the first link            *)
TestDownloadArmAnyHref(value, acc) ==
    LET hs == SelectSeq(value, HasHref) IN
    IF hs = <<>> THEN Step(None, acc)
    ELSE Step(None, [acc EXCEPT !.test_download = Head(hs).href])

(* "Test Download" arm                                                    *)
TestDownloadArm(value, acc) ==
    LET s == InnerHtml(value) IN
    IF s = <<>> THEN Step(None, acc)
    ELSE IF FirstLinkHref(SelectA(value)) = None
         THEN Step(None, acc)
         ELSE Step(None, [acc EXCEPT !.test_download = FirstLinkHref(SelectA(value))])

(* the match on head_element.inner_html(): the accumulators after the row *)
(* and the error it returns, if any                                       *)
Dispatch(head, value, acc) ==
    CASE head = Label("Available Services") -> ServicesArm(value, acc)
      [] head = Label("Available Networks") -> Step(None, acc)
      [] head = Label("Standard Bare Metal Bandwidth") -> BandwidthArm(value, acc)
      [] head = Label("Ping/Trace Route") -> PingArm(value, acc)
      [] head = Label("Certifications") -> Step(None, acc)
      [] head = Label("Test Download") -> TestDownloadArm(value, acc)
      [] OTHER -> Step(None, acc)

(* one iteration of the loop over location_element.select("table tr")     *)
TrBody(tr, acc) ==
    IF ~TdShapeOk(tr) THEN Step(Some(AttrElementInvalid), acc)
    ELSE Dispatch(InnerHtml(tr[1]), tr[3], acc)

(* location_element.select(".popover-container a"): the <a> descendants   *)
(* of any .popover-container, in document order                           *)
SelectPopoverA(block) ==
    Concat([i \in 1..Len(block.popovers) |-> SelectA(block.popovers[i])])

(* mutant: only the first .popover-container is searched                  *)
UrlOfFirstContainer(block) ==
    IF block.popovers = <<>> THEN None
    ELSE FirstLinkHref(SelectA(block.popovers[1]))

UrlOf(block) == FirstLinkHref(SelectPopoverA(block))

(* mutant: the city is looked for before the id                           *)
LocationHeadCityFirst(loc) ==
    IF loc.cities = <<>> THEN Some(CityMissing)
    ELSE IF loc.id = None THEN Some(IdMissing)
    ELSE None

(* mutant: an empty id attribute is replaced by a default                 *)
IdOrDefault(loc) == IF loc.id[1] = "" THEN "unknown" ELSE loc.id[1]

(* .attr("id") ... .to_owned()                                            *)
IdOf(loc) == loc.id[1]

(* the id attribute, then the first .dc-city element                      *)
LocationHead(loc) ==
    IF loc.id = None THEN Some(IdMissing)
    ELSE IF loc.cities = <<>> THEN Some(CityMissing)
    ELSE None

(* ----------------------------- inputs --------------------------------- *)
SeqsUpTo(S, n) == UNION {[1..k -> S] : k \in 0..n}

Ip1 == <<"8", "2", ".", "1", "6", "3", ".", "7", "8", ".", "2", "8">>
Ip2 == <<"1", "0", ".", "0", ".", "0", ".", "2", "5", "5">>

ServiceCells ==
    { <<>>,
      <<ANode(Some("Bare Metal Servers"), None), ANode(Some("Virtual Servers"), None)>>,
      <<ANode(None, Some("h0")), ANode(Some("Private Cloud"), None)>>,
      <<ANode(Some("Bare Metal Servers"), None), ANode(Some("Colocation"), None),
        ANode(Some("Virtual Servers"), None)>>,
      <<ANode(Some("Virtual Servers"), None), ANode(Some("Virtual Servers"), None)>> }

BandwidthCells == { <<>>, Text(<<"1", "0", "0", "T", "B">>), Text(<<"R", "&", "D">>) }

PingCells ==
    { <<>>, Text(<<"-">>), Text(Ip1), Text(Ip2),
      Text(<<"n", "/", "a">>),
      Text(<<"2", "5", "6", ".", "1", ".", "1", ".", "1">>),
      Text(<<"0", "1", ".", "2", ".", "3", ".", "4">>),
      Text(<<"1", ".", "2", ".", "3">>),
      <<ANode(None, Some("h0"))>> }

DownloadCells ==
    { <<>>, Text(<<"n", "/", "a">>),
      <<ANode(None, Some("h1"))>>,
      <<TextNode(<<"x">>), ANode(None, Some("h2")), ANode(None, Some("h1"))>>,
      <<ANode(Some("t"), None), ANode(None, Some("h2"))>> }

Row3(label, value) == <<Text(Label(label)), <<>>, value>>

RowSamples ==
    {Row3("Available Services", v) : v \in ServiceCells}
    \cup {Row3("Standard Bare Metal Bandwidth", v) : v \in BandwidthCells}
    \cup {Row3("Ping/Trace Route", v) : v \in PingCells}
    \cup {Row3("Test Download", v) : v \in DownloadCells}
    \cup {Row3("Available Networks", Text(<<"n", "/", "a">>)),
          Row3("Certifications", <<ANode(Some("Colocation"), Some("h1"))>>),
          Row3("Location", Text(Ip1)),
          Row3("ping/trace route", Text(<<"n", "/", "a">>))}
    \cup { <<>>,
           <<Text(Label("Ping/Trace Route")), Text(Ip1)>>,
           <<Text(Label("Available Services")), <<>>,
             <<ANode(Some("Colocation"), None)>>, <<>>>>,
           <<Text(Label("Location")), <<>>, <<>>, Text(<<"-">>)>> }

PopoverSamples ==
    { <<>>,
      <<ANode(None, Some("u1"))>>,
      <<ANode(None, None)>>,
      <<ANode(None, None), ANode(None, Some("u2"))>>,
      <<TextNode(<<"x">>), ANode(None, Some("u2")), ANode(None, Some("u1"))>> }

Block(i, c, r, p) == [id |-> i, cities |-> c, rows |-> r, popovers |-> p]

London == Text(<<"London">>)

(* one well-formed block, every sequence of at most MaxRows sample rows   *)
RowDocs ==
    { <<Block(Some("london"), <<London, Text(<<"Paris">>)>>, rows, <<>>)>> :
        rows \in SeqsUpTo(RowSamples, MaxRows) }

(* one well-formed block, every sequence of at most MaxPopovers containers *)
UrlDocs ==
    { <<Block(Some("london"), <<London>>, <<>>, ps)>> :
        ps \in SeqsUpTo(PopoverSamples, MaxPopovers) }

FullRows ==
    << Row3("Available Services",
            <<ANode(Some("Bare Metal Servers"), None), ANode(Some("Virtual Servers"), None)>>),
       Row3("Standard Bare Metal Bandwidth", Text(<<"1", "0", "0", "T", "B">>)),
       Row3("Ping/Trace Route", Text(Ip1)),
       Row3("Test Download", <<ANode(None, Some("h1"))>>) >>

BlockSamples ==
    { Block(i, c, r, <<<<ANode(None, Some("u1"))>>>>) :
        i \in {None, Some(""), Some("london"), Some("paris")},
        c \in {<<>>, <<London>>},
        r \in {<<>>, FullRows, <<Row3("Ping/Trace Route", Text(<<"n", "/", "a">>))>>} }

(* every sequence of at most MaxBlocks sample blocks                      *)
BlockDocs == SeqsUpTo(BlockSamples, MaxBlocks)

Documents == RowDocs \cup UrlDocs \cup BlockDocs

(* --------------------------- parse_html -------------------------------- *)
Init ==
    /\ document \in Documents
    /\ pc = "location"
    /\ li = 1
    /\ ti = 1
    /\ id = ""
    /\ city = <<>>
    /\ available_services = <<>>
    /\ standard_bare_metal_bandwidth = None
    /\ ping = None
    /\ test_download = None
    /\ data_centers = <<>>
    /\ result = Pending

Return(r) ==
    /\ pc' = "done"
    /\ result' = r

CurAcc == Acc(available_services, standard_bare_metal_bandwidth, ping, test_download)

(* mutant: the accumulators are declared outside the loop over the blocks *)
StaleAcc == CurAcc

(* the accumulators a location block starts with                          *)
FreshAcc == Acc(<<>>, None, None, None)

SetAcc(acc) ==
    /\ available_services' = acc.available_services
    /\ standard_bare_metal_bandwidth' = acc.standard_bare_metal_bandwidth
    /\ ping' = acc.ping
    /\ test_download' = acc.test_download

(* the head of the loop over document.select("div.location"): id, city    *)
(* and the fresh accumulators                                             *)
LocationBegin ==
    /\ pc = "location"
    /\ li <= Len(document)
    /\ LET loc == document[li] IN
       IF LocationHead(loc) # None
       THEN /\ Return(ResultErr(LocationHead(loc)[1]))
            /\ UNCHANGED <<document, li, ti, id, city, available_services,
                           standard_bare_metal_bandwidth, ping, test_download,
                           data_centers>>
       ELSE /\ id' = IdOf(loc)
            /\ city' = InnerHtml(Head(loc.cities))
            /\ SetAcc(FreshAcc)
            /\ ti' = 1
            /\ pc' = "tr"
            /\ UNCHANGED <<document, li, data_centers, result>>

(* one iteration of the loop over the block's rows                        *)
Tr ==
    /\ pc = "tr"
    /\ ti <= Len(document[li].rows)
    /\ LET r == TrBody(document[li].rows[ti], CurAcc) IN
       IF r.err # None
       THEN /\ Return(ResultErr(r.err[1]))
            /\ UNCHANGED <<document, li, ti, id, city, available_services,
                           standard_bare_metal_bandwidth, ping, test_download,
                           data_centers>>
       ELSE /\ SetAcc(r.acc)
            /\ ti' = ti + 1
            /\ UNCHANGED <<document, pc, li, id, city, data_centers, result>>

DataCenter(i, c, acc, u) ==
    [id |-> i, city |-> c,
     available_services |-> acc.available_services,
     standard_bare_metal_bandwidth |-> acc.standard_bare_metal_bandwidth,
     ping |-> acc.ping,
     test_download |-> acc.test_download,
     url |-> u]

(* mutant: the record is inserted at the front                            *)
LocationEndPrepend ==
    /\ pc = "tr"
    /\ ti > Len(document[li].rows)
    /\ data_centers' = <<DataCenter(id, city, CurAcc, UrlOf(document[li]))>> \o data_centers
    /\ li' = li + 1
    /\ pc' = "location"
    /\ UNCHANGED <<document, ti, id, city, available_services,
                   standard_bare_metal_bandwidth, ping, test_download, result>>

(* after the rows: the url and the push of the record                     *)
LocationEnd ==
    /\ pc = "tr"
    /\ ti > Len(document[li].rows)
    /\ data_centers' = Append(data_centers,
                              DataCenter(id, city, CurAcc, UrlOf(document[li])))
    /\ li' = li + 1
    /\ pc' = "location"
    /\ UNCHANGED <<document, ti, id, city, available_services,
                   standard_bare_metal_bandwidth, ping, test_download, result>>

(* Ok(data_centers) once every block is processed                         *)
Finish ==
    /\ pc = "location"
    /\ li > Len(document)
    /\ Return(ResultOk(data_centers))
    /\ UNCHANGED <<document, li, ti, id, city, available_services,
                   standard_bare_metal_bandwidth, ping, test_download,
                   data_centers>>

Next == LocationBegin \/ Tr \/ LocationEnd \/ Finish

Spec == Init /\ [][Next]_vars

(* ======================== reference definitions ======================== *)
(* What a document should yield, stated from the document alone (no       *)
(* accumulators, no loops).                                               *)
Done == pc = "done"

Vocabulary ==
    ("Bare Metal Servers" :> "BareMetalServers")
    @@ ("Virtual Servers" :> "VirtualServers")
    @@ ("Private Cloud" :> "PrivateCloud")

HasLabel(tr, label) == Len(tr) >= 1 /\ InnerHtml(tr[1]) = <<label>>

KnownTitle(n) == n.kind = "a" /\ n.title # None /\ n.title[1] \in DOMAIN Vocabulary
UnknownTitle(n) == n.kind = "a" /\ n.title # None /\ n.title[1] \notin DOMAIN Vocabulary

(* the enum values of the cell's links with a vocabulary title, in order  *)
KnownServices(cell) ==
    LET ks == SelectSeq(cell, KnownTitle) IN
    [k \in 1..Len(ks) |-> Vocabulary[ks[k].title[1]]]

Blank(cell) == InnerHtml(cell) = <<>>
Placeholder(cell) == InnerHtml(cell) = <<"-">>

RowError(tr) ==
    IF Len(tr) # 3 THEN Some(AttrElementInvalid)
    ELSE IF HasLabel(tr, "Available Services") /\ \E k \in 1..Len(tr[3]) : UnknownTitle(tr[3][k])
    THEN Some(AvailableServiceUnknown)
    ELSE IF /\ HasLabel(tr, "Ping/Trace Route")
            /\ ~Blank(tr[3])
            /\ ~Placeholder(tr[3])
            /\ ParseIpv4(InnerHtml(tr[3])) = None
    THEN Some(PingInvalid(InnerHtml(tr[3])))
    ELSE None

BadRows(b) == {j \in 1..Len(b.rows) : RowError(b.rows[j]) # None}

BlockHasError(b) == b.id = None \/ b.cities = <<>> \/ BadRows(b) # {}

SetMin(S) == CHOOSE x \in S : \A y \in S : x <= y
SetMax(S) == CHOOSE x \in S : \A y \in S : x >= y

BlockError(b) ==
    IF b.id = None THEN IdMissing
    ELSE IF b.cities = <<>> THEN CityMissing
    ELSE RowError(b.rows[SetMin(BadRows(b))])[1]

BadBlocks(doc) == {i \in 1..Len(doc) : BlockHasError(doc[i])}

RowsWith(b, label) == {j \in 1..Len(b.rows) : HasLabel(b.rows[j], label)}

(* the current row, when a row is about to be processed                   *)
AtRow == pc = "tr" /\ ti <= Len(document[li].rows)
CurRow == document[li].rows[ti]

AccUnchanged ==
    UNCHANGED <<available_services, standard_bare_metal_bandwidth, ping, test_download>>

Produces(tr, label) ==
    /\ HasLabel(tr, label)
    /\ Len(tr) = 3
    /\ ~Blank(tr[3])
    /\ label = "Ping/Trace Route" => ~Placeholder(tr[3])
    /\ label = "Test Download" =>
          /\ SelectSeq(tr[3], IsA) # <<>>
          /\ SelectSeq(tr[3], IsA)[1].href # None

LastProducer(b, label) == SetMax({j \in 1..Len(b.rows) : Produces(b.rows[j], label)})

NoProducer(b, label) == \A j \in 1..Len(b.rows) : ~Produces(b.rows[j], label)

Recognised ==
    {"Available Services", "Available Networks", "Standard Bare Metal Bandwidth",
     "Ping/Trace Route", "Certifications", "Test Download"}

Inert(tr) ==
    /\ Len(tr) = 3
    /\ \/ HasLabel(tr, "Available Networks")
       \/ HasLabel(tr, "Certifications")
       \/ \A l \in Recognised : ~HasLabel(tr, l)

(* the record fields a block alone determines                             *)
ExpServices(b) ==
    Concat([j \in 1..Len(b.rows) |->
              IF HasLabel(b.rows[j], "Available Services") /\ Len(b.rows[j]) = 3
              THEN KnownServices(b.rows[j][3]) ELSE <<>>])

ExpBandwidth(b) ==
    IF NoProducer(b, "Standard Bare Metal Bandwidth") THEN None
    ELSE Some(InnerHtml(b.rows[LastProducer(b, "Standard Bare Metal Bandwidth")][3]))

ExpPing(b) ==
    IF NoProducer(b, "Ping/Trace Route") THEN None
    ELSE ParseIpv4(InnerHtml(b.rows[LastProducer(b, "Ping/Trace Route")][3]))

ExpTestDownload(b) ==
    IF NoProducer(b, "Test Download") THEN None
    ELSE SelectSeq(b.rows[LastProducer(b, "Test Download")][3], IsA)[1].href

(* =============================== claims ================================ *)

(* C1: when no location block of the document triggers an error,          *)
(* parse_html returns Ok with exactly one record per block, the i-th      *)
(* carrying the i-th block's id and city (document order); a document     *)
(* with no block yields Ok(<<>>).                                         *)
C1_OneRecordPerBlockInOrder ==
    (Done /\ BadBlocks(document) = {}) =>
        /\ result.ok
        /\ Len(result.value) = Len(document)
        /\ \A i \in 1..Len(document) :
              /\ result.value[i].id = document[i].id[1]
              /\ result.value[i].city = InnerHtml(document[i].cities[1])

C1_Witness ==
    /\ Done
    /\ result.ok
    /\ Len(document) = 2
    /\ Len(result.value) = 2
    /\ result.value[1].id = "paris"
    /\ result.value[2].id = "london"

(* C2: if any block is malformed, parse_html returns an error and no      *)
(* record, and the error is the first one in document order: first bad    *)
(* block, and inside it id, then city, then the first bad row.            *)
C2_FailFastFirstError ==
    (Done /\ BadBlocks(document) # {}) =>
        /\ ~result.ok
        /\ result.value = <<>>
        /\ result.err = Some(BlockError(document[SetMin(BadBlocks(document))]))

C2_Witness ==
    /\ Done
    /\ ~result.ok
    /\ li = 2
    /\ Len(document) = 2
    /\ Len(data_centers) = 1
    /\ document[2].id # None
    /\ document[2].cities = <<>>
    /\ result.err = Some(CityMissing)

(* C3 as stated: every returned record has a non-empty id and no two      *)
(* records of one result share an id.                                     *)
C3_IdsNonEmptyUnique ==
    (Done /\ result.ok) =>
        /\ \A i \in 1..Len(result.value) : result.value[i].id # ""
        /\ \A i, j \in 1..Len(result.value) :
              i # j => result.value[i].id # result.value[j].id

(* C3 amended: every returned record's id is the value of its block's id  *)
(* attribute, copied verbatim; the attribute is present but may be empty  *)
(* and may repeat.                                                        *)
C3_IdIsBlockAttribute ==
    (Done /\ result.ok) =>
        \A i \in 1..Len(result.value) :
            /\ i <= Len(document)
            /\ document[i].id # None
            /\ Some(result.value[i].id) = document[i].id

C3_Witness ==
    /\ Done
    /\ result.ok
    /\ Len(result.value) = 2
    /\ result.value[1].id = ""
    /\ result.value[2].id = ""

(* C4: a row whose number of td cells is not three makes parse_html fail  *)
(* with AttrElementInvalid whatever its label, before the label is looked *)
(* at; a successful result therefore has only three-cell rows.            *)
C4_RowShape ==
    /\ []((Done /\ result.ok) =>
            \A i \in 1..Len(document) : \A j \in 1..Len(document[i].rows) :
                Len(document[i].rows[j]) = 3)
    /\ [][(AtRow /\ Len(CurRow) # 3) =>
            (pc' = "done" /\ result' = ResultErr(AttrElementInvalid))]_vars

C4_Witness ==
    /\ Done
    /\ result = ResultErr(AttrElementInvalid)
    /\ li = 1
    /\ Len(document) = 1
    /\ ti = 2
    /\ Len(document[li].rows) = 2
    /\ Len(document[li].rows[ti]) = 4
    /\ HasLabel(document[li].rows[ti], "Available Services")
    /\ \E k \in 1..Len(document[li].rows[ti][3]) : UnknownTitle(document[li].rows[ti][3][k])

(* C5: an "Available Services" row appends, in link order and keeping     *)
(* duplicates, the enum value of every link with a vocabulary title;      *)
(* links without title are skipped; a title outside the vocabulary fails  *)
(* with AvailableServiceUnknown.                                          *)
C5_AvailableServices ==
    /\ []((Done /\ result.ok) =>
            \A i \in 1..Len(document) :
                LET J == RowsWith(document[i], "Available Services") IN
                Cardinality(J) = 1 =>
                    result.value[i].available_services
                        = KnownServices(document[i].rows[SetMin(J)][3]))
    /\ [][(AtRow /\ Len(CurRow) = 3 /\ HasLabel(CurRow, "Available Services")) =>
            IF \E k \in 1..Len(CurRow[3]) : UnknownTitle(CurRow[3][k])
            THEN pc' = "done" /\ result' = ResultErr(AvailableServiceUnknown)
            ELSE /\ pc' = "tr"
                 /\ available_services' = available_services \o KnownServices(CurRow[3])]_vars

C5_Witness ==
    /\ Done
    /\ result.ok
    /\ Len(document) = 1
    /\ Len(document[1].rows) = 2
    /\ document[1].rows[1] =
          Row3("Available Services", <<ANode(None, Some("h0")), ANode(Some("Private Cloud"), None)>>)
    /\ document[1].rows[2] =
          Row3("Available Services",
               <<ANode(Some("Virtual Servers"), None), ANode(Some("Virtual Servers"), None)>>)
    /\ result.value[1].available_services = <<"PrivateCloud", "VirtualServers", "VirtualServers">>

(* C6: a "Ping/Trace Route" row whose value is "-" or empty sets no ping  *)
(* (None when it is the block's only ping row); a value that parses as an *)
(* IPv4 address yields Some(address); any other value fails with          *)
(* PingInvalid carrying the raw text.                                     *)
C6_Ping ==
    /\ []((Done /\ result.ok) =>
            \A i \in 1..Len(document) :
                LET J == RowsWith(document[i], "Ping/Trace Route") IN
                Cardinality(J) = 1 =>
                    LET v == document[i].rows[SetMin(J)][3] IN
                    result.value[i].ping =
                        IF Blank(v) \/ Placeholder(v) THEN None ELSE ParseIpv4(InnerHtml(v)))
    /\ [][(AtRow /\ Len(CurRow) = 3 /\ HasLabel(CurRow, "Ping/Trace Route")) =>
            IF Blank(CurRow[3]) \/ Placeholder(CurRow[3])
            THEN pc' = "tr" /\ ping' = ping
            ELSE IF ParseIpv4(InnerHtml(CurRow[3])) # None
            THEN pc' = "tr" /\ ping' = ParseIpv4(InnerHtml(CurRow[3]))
            ELSE pc' = "done" /\ result' = ResultErr(PingInvalid(InnerHtml(CurRow[3])))]_vars

C6_Witness ==
    /\ Done
    /\ result.ok
    /\ Len(document) = 1
    /\ Len(document[1].rows) = 2
    /\ document[1].rows[1] = Row3("Ping/Trace Route", Text(<<"-">>))
    /\ document[1].rows[2] = Row3("Location", Text(Ip1))
    /\ result.value[1].ping = None

(* C7: a "Test Download" row with an empty value cell sets nothing; with  *)
(* a non-empty cell it sets test_download to the href of the cell's first *)
(* link, and sets nothing (no error) when the cell has no link or its     *)
(* first link has no href, even if a later link has one.                  *)
C7_TestDownload ==
    /\ []((Done /\ result.ok) =>
            \A i \in 1..Len(document) :
                LET J == RowsWith(document[i], "Test Download") IN
                Cardinality(J) = 1 =>
                    LET as == SelectSeq(document[i].rows[SetMin(J)][3], IsA) IN
                    result.value[i].test_download =
                        IF as = <<>> THEN None ELSE as[1].href)
    /\ [][(AtRow /\ Len(CurRow) = 3 /\ HasLabel(CurRow, "Test Download")) =>
            LET as == SelectSeq(CurRow[3], IsA) IN
            /\ pc' = "tr"
            /\ test_download' =
                 IF Blank(CurRow[3]) \/ as = <<>> \/ as[1].href = None
                 THEN test_download ELSE as[1].href]_vars

C7_Witness ==
    /\ Done
    /\ result.ok
    /\ Len(document) = 1
    /\ Len(document[1].rows) = 1
    /\ document[1].rows[1] =
          Row3("Test Download", <<ANode(Some("t"), None), ANode(None, Some("h2"))>>)
    /\ result.value[1].test_download = None

(* C8 as stated: url is the href of the first link of the block's FIRST   *)
(* .popover-container, absent when that container has no link (or the     *)
(* link no href) whatever later containers hold.                          *)
C8_UrlFromFirstContainer ==
    (Done /\ result.ok) =>
        \A i \in 1..Len(document) :
            LET ps == document[i].popovers IN
            result.value[i].url =
                IF ps = <<>> \/ SelectSeq(ps[1], IsA) = <<>> THEN None
                ELSE SelectSeq(ps[1], IsA)[1].href

(* C8 amended: url is the href of the first link, in document order, that *)
(* lies inside any .popover-container of the block; it is absent when no  *)
(* container holds a link, or when that first link has no href, even if a *)
(* later link has one.                                                    *)
C8_UrlFromFirstContainerLink ==
    (Done /\ result.ok) =>
        \A i \in 1..Len(document) :
            LET ps == document[i].popovers
                K == {k \in 1..Len(ps) : \E n \in 1..Len(ps[k]) : ps[k][n].kind = "a"}
            IN  result.value[i].url =
                    IF K = {} THEN None
                    ELSE SelectSeq(ps[SetMin(K)], IsA)[1].href

C8_Witness ==
    /\ Done
    /\ result.ok
    /\ Len(document) = 1
    /\ Len(document[1].popovers) = 2
    /\ document[1].popovers[1] = <<>>
    /\ document[1].popovers[2] = <<ANode(None, Some("u1"))>>
    /\ result.value[1].url = Some("u1")

(* C9: the four accumulators are fresh when a block's rows start, so each *)
(* record's services, bandwidth, ping and test_download are those its own *)
(* block determines, and a block without a given labelled row gets the    *)
(* empty / absent value for that field whatever the preceding blocks held.*)
C9_RecordsIndependent ==
    /\ (pc = "tr" /\ ti = 1) =>
          /\ available_services = <<>>
          /\ standard_bare_metal_bandwidth = None
          /\ ping = None
          /\ test_download = None
    /\ (Done /\ result.ok) =>
          \A i \in 1..Len(document) :
              LET b == document[i]
                  r == result.value[i]
              IN  /\ RowsWith(b, "Available Services") = {} => r.available_services = <<>>
                  /\ RowsWith(b, "Standard Bare Metal Bandwidth") = {}
                        => r.standard_bare_metal_bandwidth = None
                  /\ RowsWith(b, "Ping/Trace Route") = {} => r.ping = None
                  /\ RowsWith(b, "Test Download") = {} => r.test_download = None
                  /\ r.available_services = ExpServices(b)
                  /\ r.standard_bare_metal_bandwidth = ExpBandwidth(b)
                  /\ r.ping = ExpPing(b)
                  /\ r.test_download = ExpTestDownload(b)

C9_Witness ==
    /\ Done
    /\ result.ok
    /\ Len(result.value) = 2
    /\ document[1].rows = FullRows
    /\ document[2].rows = <<>>
    /\ result.value[1].ping = Some(<<82, 163, 78, 28>>)
    /\ result.value[1].available_services = <<"BareMetalServers", "VirtualServers">>
    /\ result.value[2].ping = None
    /\ result.value[2].available_services = <<>>
    /\ result.value[2].standard_bare_metal_bandwidth = None
    /\ result.value[2].test_download = None

(* C10: with several rows of one scalar label in a block, the field holds *)
(* the value of the last row that produced one (a later blank, "-" or     *)
(* link-less row does not clear it); "Available Networks",                *)
(* "Certifications" and unrecognised labels change no field.              *)
C10_LastValueWins ==
    /\ []((Done /\ result.ok) =>
            \A i \in 1..Len(document) :
                LET b == document[i]
                    r == result.value[i]
                IN  /\ r.standard_bare_metal_bandwidth = ExpBandwidth(b)
                    /\ r.ping = ExpPing(b)
                    /\ r.test_download = ExpTestDownload(b))
    /\ [][(AtRow /\ Inert(CurRow)) => (pc' = "tr" /\ AccUnchanged)]_vars

C10_Witness ==
    /\ Done
    /\ result.ok
    /\ Len(document) = 1
    /\ Len(document[1].rows) = 2
    /\ document[1].rows[1] = Row3("Ping/Trace Route", Text(Ip1))
    /\ document[1].rows[2] = Row3("Ping/Trace Route", Text(<<"-">>))
    /\ result.value[1].ping = Some(<<82, 163, 78, 28>>)

=============================================================================
